---- MODULE Spec2Model ----
(***************************************************************************)
(* Correlation_Matrix.py: the Window Normalizer                            *)
(* (calculate_normalized_returns_zero_mean) and the Windowed Correlation   *)
(* Engine (calculate_correlation_matrices_per_window).                     *)
(*                                                                         *)
(* Real numbers are kept exactly.  Every value the two functions produce   *)
(* from integer inputs has the form (num/den) * sqrt(rad) with rad a       *)
(* squarefree positive integer; it is stored in that canonical form, so    *)
(* two records are equal exactly when the numbers are.  IEEE not-a-number  *)
(* is the record NaN.  Rounding is not modelled.                           *)
(***************************************************************************)
EXTENDS Integers, Sequences, FiniteSets, TLC

\* ---------------------------------------------------------------- bounds
\* Longest return series given to the normalizer.
MaxN == 5
\* Largest return value (returns are drawn from 0..MaxRet).
MaxRet == 2
\* Largest window_size given to the normalizer.
MaxNormWindow == 3

\* Largest number of companies in stock_data.
MaxCompanies == 2
\* Longest Normalized_Return series of a company.
MaxLen == 5
\* Largest window_size given to the correlation engine.
MaxCorrWindow == 3

\* ---------------------------------------------------------------- numbers
Abs(x) == IF x < 0 THEN -x ELSE x

Min(a, b) == IF a < b THEN a ELSE b

RECURSIVE Gcd(_, _)
Gcd(a, b) == IF b = 0 THEN a ELSE Gcd(b, a % b)

\* The largest m with m*m dividing R (R >= 1), searched upwards from k.
RECURSIVE SqrtPartFrom(_, _, _)
SqrtPartFrom(R, k, best) ==
    IF k * k > R THEN best
    ELSE SqrtPartFrom(R, k + 1, IF R % (k * k) = 0 THEN k ELSE best)

SqrtPart(R) == SqrtPartFrom(R, 1, 1)

\* The not-a-number marker (np.nan, and the result of 0/0).
NaN == [nan |-> TRUE, num |-> 0, den |-> 1, rad |-> 1]

\* A finite value that the canonical form cannot hold.
Unrepresentable == [nan |-> FALSE, num |-> 0, den |-> 0, rad |-> 0]

IsNaN(x) == x.nan

IsFinite(x) == ~x.nan

\* (num/den) * sqrt(R) in canonical form: den > 0, R >= 1.
Canon(num, den, R) ==
    IF num = 0 THEN [nan |-> FALSE, num |-> 0, den |-> 1, rad |-> 1]
    ELSE LET m == SqrtPart(R)
             n2 == num * m
             g == Gcd(Abs(n2), den)
         IN  [nan |-> FALSE, num |-> n2 \div g, den |-> den \div g,
              rad |-> R \div (m * m)]

RECURSIVE SumSeq(_)
SumSeq(s) == IF s = << >> THEN 0 ELSE Head(s) + SumSeq(Tail(s))

Lcm(a, b) == (a \div Gcd(a, b)) * b

\* The least common multiple of a sequence of positive integers.
RECURSIVE LcmSeq(_)
LcmSeq(s) == IF s = << >> THEN 1 ELSE Lcm(Head(s), LcmSeq(Tail(s)))

\* ---------------------------------------------------------------- numpy
\* np.array_split(a, n), n >= 1: n sections, the first Len(a) % n of them
\* one element longer than the others.
\* Mutant: the extra elements go to the last sections instead of the first.
SectionSizeExtrasLast(N, n, k) == (N \div n) + (IF k > n - (N % n) THEN 1 ELSE 0)

\* Mutant: the remainder is dropped (equal sections only).
SectionSizeTruncated(N, n, k) == N \div n

SectionSize(N, n, k) == (N \div n) + (IF k <= N % n THEN 1 ELSE 0)

SectionStart(N, n, k) == (k - 1) * (N \div n) + Min(k - 1, N % n)

ArraySplit(a, n) ==
    [k \in 1..n |->
        SubSeq(a, SectionStart(Len(a), n, k) + 1,
                  SectionStart(Len(a), n, k) + SectionSize(Len(a), n, k))]

\* n * n * (population variance) of a window of integers: zero exactly
\* when np.std(window) is zero.
ScaledVar(window) ==
    Len(window) * SumSeq([t \in 1..Len(window) |-> window[t] * window[t]])
        - SumSeq(window) * SumSeq(window)

\* (ret - np.mean(window)) / np.std(window).  With n = len(window),
\* S = sum(window) and V = ScaledVar(window) this is (n*ret - S) / sqrt(V);
\* a zero deviation over a zero deviation is 0/0, the not-a-number marker
\* (V = 0 makes every element equal to the mean, so the numerator is 0).
\* Mutant: a zero deviation is guarded and the value set to 0.
RStarWindowGuarded(ret, window) ==
    LET V == ScaledVar(window)
        d == Len(window) * ret - SumSeq(window)
    IN  IF V = 0 THEN Canon(0, 1, 1) ELSE Canon(d, V, V)

RStarWindow(ret, window) ==
    LET V == ScaledVar(window)
        d == Len(window) * ret - SumSeq(window)
    IN  IF V = 0 THEN NaN ELSE Canon(d, V, V)

\* A series element: a finite integer v, or not-a-number.
InVal(v) == [nan |-> FALSE, v |-> v]

InNaN == [nan |-> TRUE, v |-> 0]

Ints(x) == [t \in 1..Len(x) |-> x[t].v]

\* np.corrcoef(x, y)[0][1] for x and y of one length: the covariance over
\* the product of the deviations.  With n = len(x) the common factor of n
\* cancels: (n*sum(xy) - sum(x)sum(y)) / sqrt(Vx * Vy).  A not-a-number
\* element makes the result not-a-number, and so does a zero deviation
\* (0/0).
Pearson(x, y) ==
    IF \E t \in 1..Len(x) : x[t].nan \/ y[t].nan THEN NaN
    ELSE LET Vx == ScaledVar(Ints(x))
             Vy == ScaledVar(Ints(y))
             c == Len(x) * SumSeq([t \in 1..Len(x) |-> x[t].v * y[t].v])
                    - SumSeq(Ints(x)) * SumSeq(Ints(y))
         IN  IF Vx = 0 \/ Vy = 0 THEN NaN ELSE Canon(c, Vx * Vy, Vx * Vy)

\* ---------------------------------------------------------------- scipy
\* The sum of the values of a with radical r, times the common denominator
\* of a (an integer with the sign of that partial sum).
RadSum(a, r) ==
    LET D == LcmSeq([t \in 1..Len(a) |-> a[t].den])
    IN  SumSeq([t \in 1..Len(a) |->
                  IF a[t].rad = r THEN a[t].num * (D \div a[t].den) ELSE 0])

\* np.mean(a) = 0 for finite a: square roots of distinct squarefree
\* integers are independent over the rationals, so the sum vanishes
\* exactly when each radical's partial sum does.
MeanIsZero(a) == \A t \in 1..Len(a) : RadSum(a, a[t].rad) = 0

\* The population variance of a centred a, sum(x*x)/N, as the reduced
\* fraction <<A, B>>.
CentredVar(a) ==
    LET D == LcmSeq([t \in 1..Len(a) |-> a[t].den * a[t].den])
        S == SumSeq([t \in 1..Len(a) |->
                      a[t].num * a[t].num * a[t].rad
                          * (D \div (a[t].den * a[t].den))])
        g == Gcd(S, D * Len(a))
    IN  << S \div g, (D * Len(a)) \div g >>

\* stats.zscore(a): (a - a.mean()) / a.std(), population deviation,
\* nan_policy 'propagate': one not-a-number anywhere makes the mean, and
\* with it every output, not-a-number.  For a centred a with variance A/B,
\* x / sqrt(A/B) = x * sqrt(A*B) / A; a zero variance gives 0/0.
ZScore(a) ==
    IF \E t \in 1..Len(a) : IsNaN(a[t]) THEN [t \in 1..Len(a) |-> NaN]
    ELSE IF ~MeanIsZero(a) THEN [t \in 1..Len(a) |-> Unrepresentable]
    ELSE [t \in 1..Len(a) |->
            LET A == CentredVar(a)[1]
                B == CentredVar(a)[2]
            IN  IF A = 0 THEN NaN
                ELSE Canon(a[t].num, a[t].den * A, a[t].rad * A * B)]

\* ---------------------------------------------------------------- state
VARIABLES
    returns,             \* normalizer: the input array
    norm_window_size,    \* normalizer: window_size
    windows,             \* normalizer: np.array_split(returns, window_size)
    wi,                  \* normalizer: index of the window being visited
    ri,                  \* normalizer: index of ret within that window
    normalized_returns,  \* normalizer: the list being appended to
    norm_result,         \* normalizer: the returned array
    npc,                 \* normalizer: "split", "loop", "done"
    stock_data,          \* engine: company (in key order) -> Normalized_Return
    window_size,         \* engine: window_size
    windows_count,       \* engine: windows_count
    win_num,             \* engine: win_num (from 0)
    i,                   \* engine: i (companies are numbered from 1)
    j,                   \* engine: j
    window_i,            \* engine: window_i, the split of company i
    window_j,            \* engine: window_j, the split of company j
    correlation_matrix,  \* engine: the matrix being filled
    correlation_matrices,\* engine: the list being appended to
    raised,              \* engine: "none", or the exception that ended the call
    cpc                  \* engine: "start", "window", "pair", "compare",
                         \*         "done", "error"

nvars == << returns, norm_window_size, windows, wi, ri, normalized_returns,
            norm_result, npc >>

cvars == << stock_data, window_size, windows_count, win_num, i, j, window_i,
            window_j, correlation_matrix, correlation_matrices, raised, cpc >>

vars == << nvars, cvars >>

RECURSIVE SeqsUpTo(_, _)
SeqsUpTo(S, n) ==
    IF n = 0 THEN { << >> }
    ELSE SeqsUpTo(S, n - 1)
            \cup { Append(s, x) : s \in { q \in SeqsUpTo(S, n - 1) : Len(q) = n - 1 }, x \in S }

\* ---------------------------------------------------------------- normalizer
\* The engine's variables while the normalizer runs.
EngineIdle ==
    /\ stock_data = << >>
    /\ window_size = 1
    /\ windows_count = 0
    /\ win_num = 0
    /\ i = 1
    /\ j = 1
    /\ window_i = << >>
    /\ window_j = << >>
    /\ correlation_matrix = << >>
    /\ correlation_matrices = << >>
    /\ raised = "none"
    /\ cpc = "idle"

\* The normalizer's variables while the engine runs.
NormalizerIdle ==
    /\ returns = << >>
    /\ norm_window_size = 1
    /\ windows = << >>
    /\ wi = 1
    /\ ri = 1
    /\ normalized_returns = << >>
    /\ norm_result = << >>
    /\ npc = "idle"

NormInit ==
    /\ EngineIdle
    /\ returns \in SeqsUpTo(0..MaxRet, MaxN)
    /\ norm_window_size \in 1..MaxNormWindow
    /\ windows = << >>
    /\ wi = 1
    /\ ri = 1
    /\ normalized_returns = << >>
    /\ norm_result = << >>
    /\ npc = "split"

\* line 74, the loop header: the split is evaluated once.
Split ==
    /\ UNCHANGED cvars
    /\ npc = "split"
    /\ windows' = ArraySplit(returns, norm_window_size)
    /\ npc' = "loop"
    /\ UNCHANGED << returns, norm_window_size, wi, ri, normalized_returns,
                    norm_result >>

\* lines 75-78: one pass of the inner loop.
NormalizeRet ==
    /\ UNCHANGED cvars
    /\ npc = "loop"
    /\ wi <= Len(windows)
    /\ ri <= Len(windows[wi])
    /\ normalized_returns' =
           Append(normalized_returns, RStarWindow(windows[wi][ri], windows[wi]))
    /\ ri' = ri + 1
    /\ UNCHANGED << returns, norm_window_size, windows, wi, norm_result, npc >>

\* line 74: the inner loop is exhausted, on to the next window.
NextWindow ==
    /\ UNCHANGED cvars
    /\ npc = "loop"
    /\ wi <= Len(windows)
    /\ ri > Len(windows[wi])
    /\ wi' = wi + 1
    /\ ri' = 1
    /\ UNCHANGED << returns, norm_window_size, windows, normalized_returns,
                    norm_result, npc >>

\* line 79.
NormReturn ==
    /\ UNCHANGED cvars
    /\ npc = "loop"
    /\ wi > Len(windows)
    /\ norm_result' = ZScore(normalized_returns)
    /\ npc' = "done"
    /\ UNCHANGED << returns, norm_window_size, windows, wi, ri,
                    normalized_returns >>

NormNext == Split \/ NormalizeRet \/ NextWindow \/ NormReturn

SpecNorm == NormInit /\ [][NormNext]_vars

\* ---------------------------------------------------------------- engine
\* The shapes a Normalized_Return series is drawn from.
Kinds == { "saw", "step", "flat", "gap" }

\* Element t of a series of the given shape.
Element(kind, t) ==
    CASE kind = "saw" -> InVal(t % 3)
      [] kind = "step" -> InVal((t \div 2) % 2)
      [] kind = "flat" -> InVal(1)
      [] kind = "gap" -> IF t = 2 THEN InNaN ELSE InVal(t % 2)

Series(kind, L) == [t \in 1..L |-> Element(kind, t)]

AllSeries == { Series(kind, L) : kind \in Kinds, L \in 0..MaxLen }

\* line 99
NumCompanies == Len(stock_data)

\* Mutant: the count is rounded up.
WindowsCountRoundedUp(L, ws) == (L + ws - 1) \div ws

\* line 103: len(...) // window_size
WindowsCount(L, ws) == L \div ws

\* Mutant: the series is split into window_size sections.
SectionsByWindowSize(series, ws) == ws

\* Mutant: the number of sections is taken from the first company.
SectionsOfFirst(series, ws) == Len(stock_data[1]) \div ws

\* lines 112-113: the number of sections a company's series is split into,
\* len(df) // window_size, from the company's own length.
Sections(series, ws) == Len(series) \div ws

\* Mutant: the threshold is off by one.
BothLongerThanTwo(ci, cj) == Len(ci) > 2 /\ Len(cj) > 2

\* line 115: both chunks have more than 1 element.
BothLong(ci, cj) == Len(ci) > 1 /\ Len(cj) > 1

\* line 106: np.zeros((num_companies, num_companies))
Zeros(n) == [r \in 1..n |-> [c \in 1..n |-> Canon(0, 1, 1)]]

\* Mutant: only the upper triangle is written.
WriteEntryUpper(M, r, c, v) == [M EXCEPT ![r] = [@ EXCEPT ![c] = v]]

\* lines 120-121: the value goes to [i, j] and to [j, i].
WriteEntry(M, r, c, v) ==
    [M EXCEPT ![r] = [@ EXCEPT ![c] = v], ![c] = [@ EXCEPT ![r] = v]]

CorrInit ==
    /\ NormalizerIdle
    /\ \E n \in 1..MaxCompanies : stock_data \in [1..n -> AllSeries]
    /\ window_size \in 1..MaxCorrWindow
    /\ windows_count = 0
    /\ win_num = 0
    /\ i = 1
    /\ j = 1
    /\ window_i = << >>
    /\ window_j = << >>
    /\ correlation_matrix = << >>
    /\ correlation_matrices = << >>
    /\ raised = "none"
    /\ cpc = "start"

\* lines 98-103
Begin ==
    /\ cpc = "start"
    /\ windows_count' = WindowsCount(Len(stock_data[1]), window_size)
    /\ cpc' = "window"
    /\ UNCHANGED << stock_data, window_size, win_num, i, j, window_i, window_j,
                    correlation_matrix, correlation_matrices, raised >>
    /\ UNCHANGED nvars

\* lines 105-108: one more window; a fresh matrix, the first pair.
BeginWindow ==
    /\ cpc = "window"
    /\ win_num < windows_count
    /\ correlation_matrix' = Zeros(NumCompanies)
    /\ i' = 1
    /\ j' = 1
    /\ cpc' = "pair"
    /\ UNCHANGED << stock_data, window_size, windows_count, win_num, window_i,
                    window_j, correlation_matrices, raised >>
    /\ UNCHANGED nvars

\* lines 109-113: both series are split.
SplitPair ==
    /\ cpc = "pair"
    /\ i <= NumCompanies
    /\ Sections(stock_data[i], window_size) >= 1
    /\ Sections(stock_data[j], window_size) >= 1
    /\ window_i' = ArraySplit(stock_data[i], Sections(stock_data[i], window_size))
    /\ window_j' = ArraySplit(stock_data[j], Sections(stock_data[j], window_size))
    /\ cpc' = "compare"
    /\ UNCHANGED << stock_data, window_size, windows_count, win_num, i, j,
                    correlation_matrix, correlation_matrices, raised >>
    /\ UNCHANGED nvars

\* lines 112-113: np.array_split raises ValueError for 0 sections.
SplitPairRaises ==
    /\ cpc = "pair"
    /\ i <= NumCompanies
    /\ \/ Sections(stock_data[i], window_size) = 0
       \/ Sections(stock_data[j], window_size) = 0
    /\ raised' = "ValueError"
    /\ cpc' = "error"
    /\ UNCHANGED << stock_data, window_size, windows_count, win_num, i, j,
                    window_i, window_j, correlation_matrix, correlation_matrices >>
    /\ UNCHANGED nvars

\* line 115: window_i[win_num] is read first; window_j[win_num] is read
\* only when chunk i has more than 1 element ("and" cuts short).
IndexInRange ==
    /\ win_num + 1 <= Len(window_i)
    /\ Len(window_i[win_num + 1]) > 1 => win_num + 1 <= Len(window_j)

\* line 116 is reached: both chunks are read and have more than 1 element.
Correlates ==
    /\ IndexInRange
    /\ BothLong(window_i[win_num + 1], window_j[win_num + 1])

\* lines 115-121 and the loop headers 107-108: the entry of the pair (i, j)
\* is computed and written, and the loops move to the next pair.
ComputePair ==
    /\ cpc = "compare"
    /\ IndexInRange
    /\ Correlates =>
         Len(window_i[win_num + 1]) = Len(window_j[win_num + 1])
    /\ LET Cij_num_win ==
               IF Correlates
               THEN Pearson(window_i[win_num + 1], window_j[win_num + 1])
               ELSE NaN
       IN  correlation_matrix' = WriteEntry(correlation_matrix, i, j, Cij_num_win)
    /\ IF j < NumCompanies
       THEN /\ j' = j + 1
            /\ i' = i
       ELSE /\ i' = i + 1
            /\ j' = i + 1
    /\ cpc' = "pair"
    /\ UNCHANGED << stock_data, window_size, windows_count, win_num, window_i,
                    window_j, correlation_matrices, raised >>
    /\ UNCHANGED nvars

\* line 115: a chunk index past the end of a split raises IndexError;
\* line 116: np.corrcoef of chunks of different lengths raises ValueError.
ComputePairRaises ==
    /\ cpc = "compare"
    /\ \/ /\ ~IndexInRange
          /\ raised' = "IndexError"
       \/ /\ Correlates
          /\ Len(window_i[win_num + 1]) # Len(window_j[win_num + 1])
          /\ raised' = "ValueError"
    /\ cpc' = "error"
    /\ UNCHANGED << stock_data, window_size, windows_count, win_num, i, j,
                    window_i, window_j, correlation_matrix, correlation_matrices >>
    /\ UNCHANGED nvars

\* line 122: the pair loops are exhausted; the matrix is appended.
EndWindow ==
    /\ cpc = "pair"
    /\ i > NumCompanies
    /\ correlation_matrices' = Append(correlation_matrices, correlation_matrix)
    /\ win_num' = win_num + 1
    /\ cpc' = "window"
    /\ UNCHANGED << stock_data, window_size, windows_count, i, j, window_i,
                    window_j, correlation_matrix, raised >>
    /\ UNCHANGED nvars

\* line 124
CorrReturn ==
    /\ cpc = "window"
    /\ win_num >= windows_count
    /\ cpc' = "done"
    /\ UNCHANGED << stock_data, window_size, windows_count, win_num, i, j,
                    window_i, window_j, correlation_matrix, correlation_matrices,
                    raised >>
    /\ UNCHANGED nvars

CorrNext ==
    \/ Begin
    \/ BeginWindow
    \/ SplitPair
    \/ SplitPairRaises
    \/ ComputePair
    \/ ComputePairRaises
    \/ EndWindow
    \/ CorrReturn

Spec == CorrInit /\ [][CorrNext]_vars

\* ---------------------------------------------------------------- normalizer properties
\* The number of input positions that precede window k.
RECURSIVE Offset(_)
Offset(k) == IF k = 1 THEN 0 ELSE Offset(k - 1) + Len(windows[k - 1])

\* The window that holds input position t.
WindowOf(t) ==
    CHOOSE k \in 1..Len(windows) : Offset(k) < t /\ t <= Offset(k) + Len(windows[k])

\* All windows joined, in order.
RECURSIVE Joined(_)
Joined(k) == IF k = 0 THEN << >> ELSE Joined(k - 1) \o windows[k]

IsConstant(w) == \A t \in 1..Len(w) : w[t] = w[1]

\* The z-score is only ever taken of a centred array, on which ZScore is
\* exact.
ZScoreInputCentred ==
    \A t \in 1..Len(norm_result) : norm_result[t] # Unrepresentable

C5_SameLength ==
    npc = "done" =>
        /\ Len(norm_result) = Len(returns)
        /\ Len(normalized_returns) = Len(returns)
        /\ \A t \in 1..Len(returns) :
              /\ normalized_returns[t] = RStarWindow(returns[t], windows[WindowOf(t)])
              /\ norm_result[t] = ZScore(normalized_returns)[t]

C5_Witness ==
    /\ npc = "done"
    /\ Len(returns) = 2
    /\ norm_window_size = 3
    /\ Len(norm_result) = 2

\* C6: in the returned array a value is not-a-number only at a position
\* whose chunk has zero variance; every position of a chunk with non-zero
\* variance is finite.
C6_NaNOnlyInFlatChunks ==
    npc = "done" =>
        \A t \in 1..Len(norm_result) :
            IsNaN(norm_result[t]) <=> IsConstant(windows[WindowOf(t)])

EqualLengths ==
    \A k \in 1..NumCompanies : Len(stock_data[k]) = Len(stock_data[1])

\* The number of chunks company k's series is split into.
ChunkCount(k) == Len(stock_data[k]) \div window_size

\* Chunk w (from 0) of company k.
ChunkOf(k, w) == ArraySplit(stock_data[k], ChunkCount(k))[w + 1]

\* The number of series positions before chunk w (from 0) of a split.
RECURSIVE StartOf(_, _)
StartOf(split, w) == IF w = 0 THEN 0 ELSE StartOf(split, w - 1) + Len(split[w])

\* C1: every matrix appended to the result is symmetric, the entries that
\* hold the not-a-number marker included.
C1_Symmetric ==
    \A m \in 1..Len(correlation_matrices) :
        \A r, c \in 1..NumCompanies :
            correlation_matrices[m][r][c] = correlation_matrices[m][c][r]

C1_Witness ==
    /\ cpc = "done"
    /\ NumCompanies = 2
    /\ \E m \in 1..Len(correlation_matrices) :
          /\ IsNaN(correlation_matrices[m][1][2])
          /\ IsNaN(correlation_matrices[m][2][1])
    /\ \E m \in 1..Len(correlation_matrices) :
          /\ IsFinite(correlation_matrices[m][1][2])
          /\ correlation_matrices[m][1][2].num < 0
          /\ correlation_matrices[m][2][1].num < 0

\* C2: windows_count is the first company's length \div window_size (440
\* and 44 give 10); with series of one length L the call returns, never
\* raises, and returns exactly L \div window_size matrices (none when
\* L < window_size), matrix m being the one of window m.
C2_MatrixCount ==
    /\ WindowsCount(440, 44) = 10
    /\ cpc # "start" => windows_count = Len(stock_data[1]) \div window_size
    /\ EqualLengths =>
         /\ cpc # "error"
         /\ cpc = "done" =>
               Len(correlation_matrices) = Len(stock_data[1]) \div window_size
         /\ \A m \in 1..Len(correlation_matrices) :
               correlation_matrices[m][1][1] =
                   IF Len(ChunkOf(1, m - 1)) > 1
                   THEN Pearson(ChunkOf(1, m - 1), ChunkOf(1, m - 1))
                   ELSE NaN

C2_Witness ==
    /\ cpc = "done"
    /\ NumCompanies = 2
    /\ EqualLengths
    /\ Len(stock_data[1]) = 5
    /\ window_size = 2
    /\ Len(correlation_matrices) = 2

\* C3: in every appended matrix, the entry of a pair (r, c) with r <= c is
\* the Pearson coefficient of the two companies' chunks of that window when
\* both chunks have more than 1 element, and the not-a-number marker in
\* every other case.
C3_Entry ==
    \A m \in 1..Len(correlation_matrices) :
        \A r, c \in 1..NumCompanies :
            r <= c =>
                correlation_matrices[m][r][c] =
                    IF Len(ChunkOf(r, m - 1)) > 1 /\ Len(ChunkOf(c, m - 1)) > 1
                    THEN Pearson(ChunkOf(r, m - 1), ChunkOf(c, m - 1))
                    ELSE NaN

C3_Witness ==
    /\ cpc = "done"
    /\ NumCompanies = 2
    /\ \/ /\ window_size = 1
          /\ Len(correlation_matrices) >= 1
          /\ Len(ChunkOf(1, 0)) = 1
          /\ Len(ChunkOf(2, 0)) = 1
          /\ IsNaN(correlation_matrices[1][1][2])
       \/ /\ window_size = 2
          /\ Len(correlation_matrices) >= 1
          /\ Len(ChunkOf(1, 0)) = 2
          /\ IsFinite(correlation_matrices[1][1][2])
          /\ correlation_matrices[1][1][2].num # 0

\* C8: with series of one length L >= window_size, the chunk read for a
\* window has exactly window_size elements.
C8_FixedSizeWindows ==
    cpc = "compare" /\ EqualLengths =>
        /\ Len(window_i[win_num + 1]) = window_size
        /\ Len(window_j[win_num + 1]) = window_size

\* The call gets through every window: each company has a chunk for it,
\* and two chunks that are correlated have one length.
Completes ==
    \A w \in 0..(windows_count - 1) :
        /\ \A k \in 1..NumCompanies : w < ChunkCount(k)
        /\ \A r, c \in 1..NumCompanies :
              (/\ r <= c
               /\ Len(ChunkOf(r, w)) > 1
               /\ Len(ChunkOf(c, w)) > 1)
                  => Len(ChunkOf(r, w)) = Len(ChunkOf(c, w))

\* C9 as stated: with series of differing lengths the call never raises.
C9_NeverRaises == ~EqualLengths => cpc # "error"

\* C9 as amended: with series of differing lengths each company is split
\* into len(own series) \div window_size chunks and windows_count is taken
\* from the first company; the call returns exactly when every company has
\* a chunk for every window and the chunks that are correlated have one
\* length, and raises otherwise; chunks that are correlated start at the
\* same position.
C9_RaisesUnlessChunksMatch ==
    ~EqualLengths =>
        /\ cpc # "start" => windows_count = Len(stock_data[1]) \div window_size
        /\ cpc = "compare" =>
              /\ Len(window_i) = Len(stock_data[i]) \div window_size
              /\ Len(window_j) = Len(stock_data[j]) \div window_size
        /\ cpc = "done" => Completes
        /\ cpc = "error" => ~Completes /\ raised \in { "IndexError", "ValueError" }
        /\ (/\ cpc = "compare"
             /\ Correlates
             /\ Len(window_i[win_num + 1]) = Len(window_j[win_num + 1]))
               => StartOf(window_i, win_num) = StartOf(window_j, win_num)

C9_Witness ==
    /\ ~EqualLengths
    /\ cpc = "done"
    /\ NumCompanies = 2
    /\ Len(correlation_matrices) = 2
    /\ Len(stock_data[2]) > Len(stock_data[1])

\* C10: with series of one length L, for every window w < L \div window_size
\* and every pair that is compared, chunk w exists in both splits, starts at
\* the same position in both, and has the same length in both, at least
\* window_size; no index is out of range.
C10_AlignedChunks ==
    EqualLengths =>
        /\ cpc # "error"
        /\ cpc = "compare" =>
              /\ win_num < Len(stock_data[1]) \div window_size
              /\ \A w \in 0..(Len(stock_data[1]) \div window_size - 1) :
                    /\ w + 1 <= Len(window_i)
                    /\ w + 1 <= Len(window_j)
                    /\ StartOf(window_i, w) = StartOf(window_j, w)
                    /\ Len(window_i[w + 1]) = Len(window_j[w + 1])
                    /\ Len(window_i[w + 1]) >= window_size

C10_Witness ==
    /\ EqualLengths
    /\ cpc = "compare"
    /\ Len(stock_data[1]) = 5
    /\ window_size = 2
    /\ win_num = 1
    /\ i = 1
    /\ j = 2
    /\ Len(window_i[2]) = 2
====
